---- MODULE Spec2Model ----
(***************************************************************************)
(* offshape: export of CAD parts through the OnShape translation pipeline. *)
(*                                                                         *)
(* Two state machines share this module:                                   *)
(*   Spec         the export run (export.rs / pull.rs `export`): target    *)
(*                resolution, output directories, job submission and the    *)
(*                poll loop over the in-flight jobs;                        *)
(*   SpecLimiter  the acquire loop of OnShapeClient::request on the shared  *)
(*                rate limiter (client.rs);                                 *)
(*   SpecClient   the client operations download_translated_file and        *)
(*                get_part_stl on their own (client.rs);                    *)
(*   SpecSigner   the signature plaintext of request() (client.rs);         *)
(*   SpecFiles    write_output_file on a file system (pull.rs).             *)
(***************************************************************************)
EXTENDS Integers, Sequences, FiniteSets, TLC

\* ---------------------------------------------------------------- bounds
\* largest number of exports (part x format) a configuration may ask for
MaxJobs == 3
\* how many times the service may still answer Active for jobs that do finish
MaxDelay == 2
\* clock ticks per replenished cell (one tick is 250 ms / ReplenishTicks)
ReplenishTicks == 2
\* concurrent callers of request() on one client
NCallers == 2
\* length of the nonces drawn for the signer (create_nonce takes 25)
NonceLen == 1
\* number of bytes of the longest payload written to a file
MaxBytes == 2
\* latest instant of the file system's clock
MaxClock == 3
\* length of the longest textual export that is normalised
MaxText == 4
\* number of entries of the largest output directory that is cleaned
MaxEntries == 2

\* client.rs: Quota::per_second(nonzero!(4u32))
Burst == 4

\* identifiers the configurations and the live listings are drawn from
StudioIds == {1, 2}
PartIds == {1, 2}

None == <<>>
Some(x) == <<x>>

\* ---------------------------------------------------------------- models.rs
FORMATS == <<"ThreeMF", "Step", "Stl">>

extension(f) ==
    CASE f = "ThreeMF" -> "3mf"
      [] f = "Step" -> "step"
      [] f = "Stl" -> "stl"

export_action(f) ==
    CASE f = "ThreeMF" -> "Translate"
      [] f = "Step" -> "Translate"
      [] f = "Stl" -> "Direct"

TranslationState == {"Active", "Done", "Failed"}

\* ---------------------------------------------------------------- config.rs
AllFormats(c) == FORMATS

\* the formats whose path is configured, in the order of FORMATS
export_formats(c) == SelectSeq(FORMATS, LAMBDA f : c.paths[f] # None)

format_path(c, f) == c.paths[f]

\* ---------------------------------------------------------------- names
ConfigBasename(p) == IF p = 1 THEN "bracket" ELSE "lid"
PartName(p) == IF p = 1 THEN "Top Plate" ELSE "Base"

\* convert_case: Case::Snake on a part name
ToSnake(name) ==
    CASE name = "Top Plate" -> "top_plate"
      [] name = "top_plate" -> "top_plate"
      [] name = "Base" -> "base"
      [] OTHER -> name

VARIABLES
    \* inputs of one run
    variant,        \* "export" (export.rs) or "pull" (pull.rs)
    environment,    \* the variables of the process environment (after dotenv)
    config,         \* SyncConfig: part_studios, paths
    options,        \* ExportOptions / PullOptions
    live,           \* the service's live listings: elements, parts per studio
    \* the export function
    pc, result,
    element_map, to_export_by_studio,
    si, fi, wi,
    dirs,
    active_jobs, next, inner, group, acc, job, bytes,
    \* the translation service
    srv, stuck, patience,
    \* observations of the run
    hist,
    \* the rate limiter and the callers of request()
    tat, bucket, window, caller,
    \* the client operations, the signer and the file system taken alone
    call, signed, files, now

inputs == <<variant, environment, config, options, live>>
locals == <<element_map, to_export_by_studio, si, fi, wi, dirs>>
loopv == <<active_jobs, next, inner, group, acc, job, bytes>>
server == <<srv, stuck, patience>>
limiter == <<tat, bucket, window, caller>>
alone == <<call, signed, files, now>>
vars == <<variant, environment, config, options, live, pc, result, element_map,
          to_export_by_studio, si, fi, wi, dirs, active_jobs, next, inner,
          group, acc, job, bytes, srv, stuck, patience, hist, tat, bucket,
          window, caller, call, signed, files, now>>

\* ---------------------------------------------------------------- inputs
Iota(n) == [i \in 1..n |-> i]

SetToSeq(S) == SelectSeq(Iota(2), LAMBDA i : i \in S)

SyncedParts(m) == [i \in 1..m |-> [id |-> i, basename |-> ConfigBasename(i)]]

Listing(S) ==
    LET ids == SetToSeq(S)
    IN  [i \in 1..Len(ids) |-> [part_id |-> ids[i], name |-> PartName(ids[i])]]

RECURSIVE SumSeq(_)
SumSeq(s) == IF s = <<>> THEN 0 ELSE Head(s) + SumSeq(Tail(s))

Max(a, b) == IF a > b THEN a ELSE b
Min(a, b) == IF a < b THEN a ELSE b

\* the number of exports a run may attempt (configured or live parts x formats)
PotentialExports(c, l) ==
    SumSeq([s \in 1..Len(c.part_studios) |->
                Max(Len(c.part_studios[s].synced_parts),
                    Len(l.parts[c.part_studios[s].id]))])
        * Len(export_formats(c))

PartStudioConfigs ==
    UNION { { [s \in 1..n |-> [id |-> s, synced_parts |-> SyncedParts(ms[s])]] :
                ms \in [1..n -> 0..2] } : n \in 1..2 }

OutputDir(f) == <<"out", extension(f)>>

PathConfigs ==
    { [f \in {"ThreeMF", "Step", "Stl"} |->
            IF f \in F THEN Some(OutputDir(f)) ELSE None] :
        F \in SUBSET {"ThreeMF", "Step", "Stl"} }

LiveListings ==
    [elements : SUBSET StudioIds,
     parts : [StudioIds -> {Listing(S) : S \in SUBSET PartIds}]]

ConfiguredStudios(c) == {c.part_studios[s].id : s \in 1..Len(c.part_studios)}

\* the most exports a configuration over these identifiers can ask for
MostExports == Cardinality(StudioIds) * Cardinality(PartIds) * Len(FORMATS)

NoHistory ==
    [begun |-> 0, exporting |-> 0, direct |-> 0,
     wrote |-> [i \in 1..MostExports |-> 0],
     failLogged |-> [i \in 1..MostExports |-> 0],
     repolled |-> FALSE, polled |-> <<>>, faulted |-> FALSE,
     \* whether a request went out, the kind of the error that ended the run,
     \* the poll passes begun (counted as 0, 1, 2, more)
     networked |-> FALSE, cause |-> "none", passes |-> 0]

FreshInner ==
    [iter |-> 0, current_key |-> None, current_elt |-> None, done |-> FALSE,
     top_group |-> 0, index |-> 0]

NoGroup == [index |-> 0, key |-> "Active", first |-> None]

ExportIdle ==
    /\ pc = "client" /\ result = "running"
    /\ element_map = {}
    /\ to_export_by_studio = [s \in StudioIds |-> None]
    /\ si = 1 /\ fi = 1 /\ wi = 1
    /\ dirs = {}
    /\ active_jobs = <<>> /\ next = <<>>
    /\ inner = FreshInner /\ group = NoGroup /\ acc = <<>> /\ job = None
    /\ bytes = None
    /\ srv = <<>> /\ stuck = {} /\ patience = MaxDelay
    /\ hist = NoHistory

\* Quota::per_second(n): n cells of burst, one cell replenished every 1/n s
T == ReplenishTicks
Tau == Burst * T
OneSecond == Burst * T

LimiterIdle ==
    /\ tat = 0
    /\ bucket = Tau
    /\ window = <<>>
    /\ caller = <<>>

\* the variables environment_client reads
ACCESS_KEY == "ONSHAPE_ACCESS_KEY"
SECRET_KEY == "ONSHAPE_SECRET_KEY"

NoCall == [op |-> "none"]

AloneIdle ==
    /\ call = NoCall
    /\ signed = <<>>
    /\ files = None
    /\ now = 1

Init ==
    /\ variant \in {"export", "pull"}
    /\ environment \in SUBSET {ACCESS_KEY, SECRET_KEY}
    /\ config \in [part_studios : PartStudioConfigs, paths : PathConfigs]
    /\ options = [no_clean_paths |-> FALSE]
    /\ live \in LiveListings
    /\ \A s \in StudioIds \ ConfiguredStudios(config) :
            s \notin live.elements /\ live.parts[s] = <<>>
    /\ PotentialExports(config, live) <= MaxJobs
    /\ ExportIdle
    /\ LimiterIdle
    /\ AloneIdle

\* ---------------------------------------------------------------- export
Return(r, fault) ==
    /\ pc' = "returned"
    /\ result' = r
    /\ hist' = [hist EXCEPT !.faulted = @ \/ fault]

\* the `?` operator on a result: an Err leaves the function with the error
QuestionSwallows(res) == "continue"

Question(res) == IF res.ok THEN "continue" ELSE "return"

Ok == [ok |-> TRUE, cause |-> "none"]
Err(cause) == [ok |-> FALSE, cause |-> cause]

\* the observations after an operation ended with res
Noted(h, res) ==
    IF res.ok THEN h ELSE [h EXCEPT !.faulted = TRUE, !.cause = res.cause]

ClientWithoutKeys(env) == Ok

\* environment_client: std::env::var(..)? for the access and the secret key
environment_client(env) ==
    IF ACCESS_KEY \notin env THEN Err("configuration")
    ELSE IF SECRET_KEY \notin env THEN Err("configuration")
    ELSE Ok

\* let client = environment_client(global_options.proxy_url)?;
EnvironmentClient ==
    /\ pc = "client"
    /\ LET res == environment_client(environment)
       IN  /\ hist' = Noted(hist, res)
           /\ IF Question(res) = "return"
              THEN pc' = "returned" /\ result' = "Err"
              ELSE pc' = "elements" /\ UNCHANGED result
    /\ UNCHANGED <<inputs, locals, loopv, server, limiter, alone>>

\* get_document_elements: one request; the listing keyed by element id
GetDocumentElements ==
    /\ pc = "elements"
    /\ \/ /\ element_map' = live.elements
          /\ pc' = "validate"
          /\ hist' = [hist EXCEPT !.networked = TRUE]
          /\ UNCHANGED result
       \/ /\ pc' = "returned" /\ result' = "Err"
          /\ hist' = Noted([hist EXCEPT !.networked = TRUE], Err("transport"))
          /\ UNCHANGED element_map
    /\ UNCHANGED <<inputs, to_export_by_studio, si, fi, wi, dirs, loopv, server, limiter, alone>>

PartIdsOf(parts) == {parts[i].part_id : i \in 1..Len(parts)}

\* export.rs: the configured parts, each looked up in the live listing
ConfiguredParts(synced_studio, parts) ==
    [i \in 1..Len(synced_studio.synced_parts) |->
        <<synced_studio.synced_parts[i].id, synced_studio.synced_parts[i].basename>>]

\* pull.rs: every part of the live listing, named by its snake-cased name
StudioParts(parts) ==
    [i \in 1..Len(parts) |-> <<parts[i].part_id, ToSnake(parts[i].name)>>]

PartMissing(synced_studio, parts) ==
    /\ variant = "export"
    /\ \E i \in 1..Len(synced_studio.synced_parts) :
            synced_studio.synced_parts[i].id \notin PartIdsOf(parts)

ValidateStudio ==
    /\ pc = "validate"
    /\ si <= Len(config.part_studios)
    /\ LET synced_studio == config.part_studios[si]
           parts == live.parts[synced_studio.id]
       IN  IF synced_studio.id \notin element_map
           THEN Return("Err", FALSE) /\ UNCHANGED <<to_export_by_studio, si>>
           ELSE \/ /\ pc' = "returned" /\ result' = "Err"
                   /\ hist' = Noted(hist, Err("transport"))
                   /\ UNCHANGED <<to_export_by_studio, si>>
                \/ IF PartMissing(synced_studio, parts)
                   THEN Return("Err", FALSE) /\ UNCHANGED <<to_export_by_studio, si>>
                   ELSE /\ to_export_by_studio' =
                            [to_export_by_studio EXCEPT ![synced_studio.id] =
                                Some(IF variant = "export"
                                     THEN ConfiguredParts(synced_studio, parts)
                                     ELSE StudioParts(parts))]
                        /\ si' = si + 1
                        /\ UNCHANGED <<pc, result, hist>>
    /\ UNCHANGED <<inputs, element_map, fi, wi, dirs, loopv, server, limiter, alone>>

SubmitsFirst(section) ==
    CASE section = "validate" -> "submit"
      [] section = "submit" -> "dirs"
      [] section = "dirs" -> "while"

\* the sections of export() in the order they are written: resolution, output
\* directories, submission, poll loop
After(section) ==
    CASE section = "validate" -> "dirs"
      [] section = "dirs" -> "submit"
      [] section = "submit" -> "while"

ValidateDone ==
    /\ pc = "validate"
    /\ si > Len(config.part_studios)
    /\ pc' = After("validate")
    /\ UNCHANGED <<inputs, result, locals, loopv, server, hist, limiter, alone>>

\* !self.no_clean_paths
should_clean_paths(opts) == ~opts.no_clean_paths

\* create_dir_all for the directory of each format in use, then clean_path,
\* whose expects abort the process
PrepareDir ==
    /\ pc = "dirs"
    /\ fi <= Len(export_formats(config))
    /\ LET f == export_formats(config)[fi]
       IN  \/ /\ dirs' = dirs \cup {f}
              /\ fi' = fi + 1
              /\ UNCHANGED <<pc, result, hist>>
           \/ /\ pc' = "returned" /\ result' = "Err"
              /\ hist' = Noted(hist, Err("directory"))
              /\ UNCHANGED <<dirs, fi>>
           \/ /\ should_clean_paths(options)
              /\ pc' = "returned" /\ result' = "Panic"
              /\ hist' = Noted(hist, Err("clean"))
              /\ dirs' = dirs \cup {f}
              /\ UNCHANGED fi
    /\ UNCHANGED <<inputs, element_map, to_export_by_studio, si, wi, loopv, server, limiter, alone>>

DirsDone ==
    /\ pc = "dirs"
    /\ fi > Len(export_formats(config))
    /\ pc' = After("dirs")
    /\ UNCHANGED <<inputs, result, locals, loopv, server, hist, limiter, alone>>

\* ---------------------------------------------------------------- client.rs
\* what the transport hands back for one request: no response at all, or a
\* response with a status class and, possibly, a Location header
Statuses == {"success", "redirection", "client_error"}

\* a Location header: absent, not visible ASCII, not an absolute URL, a URL
Locations == {None, Some("opaque"), Some("relative"), Some("url")}

TransportFailure == [transport |-> TRUE, status |-> "none", location |-> None]

Responses ==
    {TransportFailure}
        \cup [transport : {FALSE}, status : Statuses, location : Locations]

is_redirection(status) == status = "redirection"

\* the body of a response: the artifact, or the service's error page
Body(resp) == IF resp.status = "success" THEN "artifact" ELSE "error_page"

\* result_external_data_ids: absent, empty, one identifier
IdLists == {None, Some(<<>>), Some(<<"x1">>), Some(<<"x1", "x2">>)}

WithIds(j, ids) ==
    [id |-> j.id, request_state |-> j.request_state,
     output_filename |-> j.output_filename, format |-> j.format,
     result_external_data_ids |-> ids]

DownloadsAnyJob(j) == TRUE

\* (TranslationState::Done, Some([external_id, ..])) of download_translated_file
Downloadable(j) ==
    /\ j.request_state = "Done"
    /\ j.result_external_data_ids # None
    /\ Len(j.result_external_data_ids[1]) >= 1

\* download_translated_file: ret is what the caller gets, sent the number of
\* requests that went out; send()? fails on a transport failure only
download_translated_file(j, resp) ==
    IF ~Downloadable(j)
    THEN [ret |-> Err("state"), bytes |-> None, sent |-> 0]
    ELSE IF resp.transport
    THEN [ret |-> Err("transport"), bytes |-> None, sent |-> 1]
    ELSE [ret |-> Ok, bytes |-> Some(Body(resp)), sent |-> 1]

\* get_part_stl: the request, assert!(is_redirection), expect(location),
\* to_str()?, then the request to the location (request() panics on a string
\* that is no URL)
get_part_stl(res, redirect) ==
    IF res.transport
    THEN [ret |-> Err("transport"), panic |-> FALSE, bytes |-> None, sent |-> 1]
    ELSE IF ~is_redirection(res.status)
    THEN [ret |-> Err("protocol"), panic |-> TRUE, bytes |-> None, sent |-> 1]
    ELSE IF res.location = None
    THEN [ret |-> Err("protocol"), panic |-> TRUE, bytes |-> None, sent |-> 1]
    ELSE IF res.location = Some("opaque")
    THEN [ret |-> Err("protocol"), panic |-> FALSE, bytes |-> None, sent |-> 1]
    ELSE IF res.location = Some("relative")
    THEN [ret |-> Err("protocol"), panic |-> TRUE, bytes |-> None, sent |-> 1]
    ELSE IF redirect.transport
    THEN [ret |-> Err("transport"), panic |-> FALSE, bytes |-> None, sent |-> 2]
    ELSE [ret |-> Ok, panic |-> FALSE, bytes |-> Some(Body(redirect)), sent |-> 2]

\* A textual export is the sequence of its characters, "D" standing for the
\* literal DATE= and "a" for any other character that is no line break.
Texts == UNION {[1..n -> {"D", "a", "\n"}] : n \in 0..MaxText}

\* the leftmost match of (?m)DATE=.*$\n: from the first DATE= that has a line
\* break after it up to and including the first such line break
MatchStart(text) ==
    {i \in DOMAIN text :
        /\ text[i] = "D"
        /\ \E j \in DOMAIN text : j > i /\ text[j] = "\n"
        /\ \A k \in 1..(i - 1) :
                ~(text[k] = "D" /\ \E j \in DOMAIN text : j > k /\ text[j] = "\n")}

MatchEnd(text, i) ==
    CHOOSE j \in DOMAIN text :
        /\ j > i /\ text[j] = "\n"
        /\ \A k \in (i + 1)..(j - 1) : text[k] # "\n"

\* HEADER_DATE_PATTERN.replace(&para_text, ""): Regex::replace replaces the
\* leftmost match only
replace(text) ==
    IF MatchStart(text) = {} THEN text
    ELSE LET i == CHOOSE i \in MatchStart(text) : TRUE
             j == MatchEnd(text, i)
         IN  SubSeq(text, 1, i - 1) \o SubSeq(text, j + 1, Len(text))

\* get_part_parasolid: the fetch of get_part_stl, then the normalisation
get_part_parasolid(res, redirect, para_text) ==
    LET fetched == get_part_stl(res, redirect)
    IN  IF fetched.ret.ok
        THEN [ret |-> Ok, panic |-> FALSE, bytes |-> Some(replace(para_text)),
              sent |-> fetched.sent]
        ELSE fetched

\* what creating and writing one output file may come to
WriteResults == {Ok, Err("io")}

\* ---------------------------------------------------------------- submission
RECURSIVE Flatten(_)
Flatten(ss) == IF ss = <<>> THEN <<>> ELSE Head(ss) \o Flatten(Tail(ss))

\* export.rs begins a translation for every format in use; pull.rs begins one
\* for the Translate formats and then fetches the Direct formats of the part
FormatOrder ==
    IF variant = "export"
    THEN [i \in 1..Len(export_formats(config)) |->
            [format |-> export_formats(config)[i], action |-> "Translate"]]
    ELSE LET fs == export_formats(config)
             tr == SelectSeq(fs, LAMBDA f : export_action(f) = "Translate")
             di == SelectSeq(fs, LAMBDA f : export_action(f) = "Direct")
         IN  [i \in 1..Len(tr) |-> [format |-> tr[i], action |-> "Translate"]]
             \o [i \in 1..Len(di) |-> [format |-> di[i], action |-> "Direct"]]

\* the loop nest part_studio / (part_id, basename) / format, in iteration order
SubmissionOrder ==
    Flatten([s \in 1..Len(config.part_studios) |->
        LET studio == config.part_studios[s].id
            to_sync == to_export_by_studio[studio][1]
        IN  Flatten([p \in 1..Len(to_sync) |->
                [k \in 1..Len(FormatOrder) |->
                    [studio |-> studio, part_id |-> to_sync[p][1],
                     basename |-> to_sync[p][2],
                     format |-> FormatOrder[k].format,
                     action |-> FormatOrder[k].action]]])])

UnnamedJob(id, item) ==
    [id |-> id, request_state |-> "Active",
     output_filename |-> <<"part", extension(item.format)>>,
     format |-> item.format]

\* begin_translation: the job as acknowledged, with the destination file name
NewJob(id, item) ==
    [id |-> id, request_state |-> "Active",
     output_filename |-> <<item.basename, extension(item.format)>>,
     format |-> item.format]

BeginTranslation ==
    /\ pc = "submit"
    /\ wi <= Len(SubmissionOrder)
    /\ SubmissionOrder[wi].action = "Translate"
    /\ LET item == SubmissionOrder[wi]
           id == Len(srv) + 1
           h == [hist EXCEPT !.exporting = @ + 1, !.begun = @ + 1,
                             !.networked = TRUE]
       IN  \/ /\ active_jobs' = Append(active_jobs, NewJob(id, item))
              /\ srv' = Append(srv, "Active")
              /\ stuck' \in {stuck, stuck \cup {id}}
              /\ wi' = wi + 1
              /\ hist' = h
              /\ UNCHANGED <<pc, result>>
           \/ /\ pc' = "returned" /\ result' = "Err"
              /\ hist' = Noted(h, Err("submission"))
              /\ UNCHANGED <<active_jobs, srv, stuck, wi>>
    /\ UNCHANGED <<inputs, element_map, to_export_by_studio, si, fi, dirs,
                   next, inner, group, acc, job, patience, bytes, limiter, alone>>

\* pull.rs: get_part_stl and write_output_file for a Direct format
DirectExport ==
    /\ pc = "submit"
    /\ wi <= Len(SubmissionOrder)
    /\ SubmissionOrder[wi].action = "Direct"
    /\ \E res, redirect \in Responses, written \in WriteResults :
        LET stl == get_part_stl(res, redirect)
            h == [hist EXCEPT !.exporting = @ + 1, !.networked = TRUE]
        IN  IF stl.panic
            THEN /\ pc' = "returned" /\ result' = "Panic"
                 /\ hist' = Noted(h, stl.ret)
                 /\ UNCHANGED wi
            ELSE IF Question(stl.ret) = "return"
            THEN /\ pc' = "returned" /\ result' = "Err"
                 /\ hist' = Noted(h, stl.ret)
                 /\ UNCHANGED wi
            ELSE IF Question(written) = "return"
            THEN /\ pc' = "returned" /\ result' = "Err"
                 /\ hist' = Noted(h, written)
                 /\ UNCHANGED wi
            ELSE /\ hist' = Noted([h EXCEPT
                                !.direct = IF written.ok THEN @ + 1 ELSE @],
                                  written)
                 /\ wi' = wi + 1
                 /\ UNCHANGED <<pc, result>>
    /\ UNCHANGED <<inputs, element_map, to_export_by_studio, si, fi, dirs,
                   loopv, server, limiter, alone>>

SubmitDone ==
    /\ pc = "submit"
    /\ wi > Len(SubmissionOrder)
    /\ pc' = After("submit")
    /\ UNCHANGED <<inputs, result, locals, loopv, server, hist, limiter, alone>>

\* ---------------------------------------------------------------- service
\* what the service may answer when job `id` is polled: a finished job keeps
\* its state, a stuck job stays Active, any other job finishes now or later
ServerAnswers(id) ==
    IF srv[id] # "Active" THEN {srv[id]}
    ELSE IF id \in stuck THEN {"Active"}
    ELSE {"Done", "Failed"} \cup (IF patience > 0 THEN {"Active"} ELSE {})

TakesServerName(j, st) ==
    [id |-> j.id, request_state |-> st,
     output_filename |-> <<"translation", extension(j.format)>>, format |-> j.format]

AnswersOtherHandle(j, st) ==
    [id |-> (j.id % Len(srv)) + 1, request_state |-> st,
     output_filename |-> j.output_filename, format |-> j.format]

\* check_translation: the re-fetched job under the handle's file name and format
check_translation(j, st) ==
    [id |-> j.id, request_state |-> st,
     output_filename |-> j.output_filename, format |-> j.format]

\* ---------------------------------------------------------------- poll loop
\* active_jobs.iter().map(check_translation).group_by(request_state) is lazy:
\* `inner` is the grouping adaptor's state, inner.iter the number of jobs of
\* active_jobs polled so far in this pass.

\* step_current: hand out the buffered element, or poll the next job and
\* compare its key with the key of the running group
step_current(st) ==
    IF inner.current_elt # None
    THEN [inner |-> [inner EXCEPT !.current_elt = None], ret |-> inner.current_elt]
    ELSE IF inner.iter >= Len(active_jobs)
    THEN [inner |-> [inner EXCEPT !.done = TRUE], ret |-> None]
    ELSE LET elt == check_translation(active_jobs[inner.iter + 1], st)
             key == elt.request_state
         IN  IF inner.current_key # None /\ inner.current_key[1] # key
             THEN [inner |-> [inner EXCEPT !.iter = @ + 1,
                                           !.current_key = Some(key),
                                           !.current_elt = Some(elt),
                                           !.top_group = @ + 1],
                   ret |-> None]
             ELSE [inner |-> [inner EXCEPT !.iter = @ + 1,
                                           !.current_key = Some(key)],
                   ret |-> Some(elt)]

\* step: the next element of group `client`, None once the group has ended
step(client, st) ==
    IF client < inner.top_group THEN [inner |-> inner, ret |-> None]
    ELSE IF inner.done THEN [inner |-> inner, ret |-> None]
    ELSE step_current(st)

\* whether step(client) sends a status poll
StepPolls(client) ==
    /\ client >= inner.top_group
    /\ ~inner.done
    /\ inner.current_elt = None
    /\ inner.iter < Len(active_jobs)

\* Group::next: the group's first element, then step
GroupPolls == group.first = None /\ StepPolls(group.index)

GroupNext(st) ==
    IF group.first # None
    THEN [inner |-> inner, ret |-> group.first]
    ELSE step(group.index, st)

\* whether the program's next step sends a status poll
PollPending ==
    CASE pc = "groups_next" -> StepPolls(inner.index)
      [] pc = "group_key" -> inner.iter < Len(active_jobs)
      [] pc \in {"collect", "done_loop", "failed_loop"} -> GroupPolls
      [] OTHER -> FALSE

PolledJob == active_jobs[inner.iter + 1]

Answers == IF PollPending THEN ServerAnswers(PolledJob.id) ELSE {"none"}

\* the service and the observations after the pending poll was answered st
Polled(st) ==
    IF PollPending
    THEN /\ srv' = [srv EXCEPT ![PolledJob.id] = st]
         /\ patience' = IF st = "Active" /\ PolledJob.id \notin stuck
                        THEN patience - 1 ELSE patience
         /\ UNCHANGED stuck
    ELSE UNCHANGED server

Observed(st) ==
    IF PollPending
    THEN [hist EXCEPT !.repolled = @ \/ srv[PolledJob.id] # "Active",
                      !.polled = Append(@, <<PolledJob.id, st>>),
                      !.networked = TRUE]
    ELSE hist

\* while !active_jobs.is_empty() { let mut next = vec![]; ...
LoopHead ==
    /\ pc = "while"
    /\ IF active_jobs = <<>>
       THEN /\ pc' = "returned" /\ result' = "Ok"
            /\ UNCHANGED <<next, inner, hist>>
       ELSE /\ next' = <<>>
            /\ inner' = FreshInner
            /\ pc' = "groups_next"
            /\ hist' = [hist EXCEPT !.polled = <<>>,
                                    !.passes = Min(@ + 1, 3)]
            /\ UNCHANGED result
    /\ UNCHANGED <<inputs, locals, active_jobs, group, acc, job, server, bytes, limiter, alone>>

\* Groups::next: the first element of the next group; when there is none the
\* for loop is over and active_jobs = next
GroupsNext ==
    /\ pc = "groups_next"
    /\ \E st \in Answers :
        LET r == step(inner.index, st)
        IN  /\ Polled(st)
            /\ hist' = Observed(st)
            /\ inner' = [r.inner EXCEPT !.index = @ + 1]
            /\ IF r.ret = None
               THEN /\ active_jobs' = next
                    /\ pc' = "while"
                    /\ UNCHANGED group
               ELSE /\ group' = [index |-> inner.index,
                                 key |-> r.inner.current_key[1],
                                 first |-> r.ret]
                    /\ pc' = "group_key"
                    /\ UNCHANGED active_jobs
    /\ UNCHANGED <<inputs, result, locals, next, acc, job, bytes, limiter, alone>>

ArmRetainsDone(key) ==
    CASE key = "Active" -> "collect"
      [] key = "Done" -> "collect"
      [] key = "Failed" -> "failed_loop"

ArmRetainsFailed(key) ==
    CASE key = "Active" -> "collect"
      [] key = "Done" -> "done_loop"
      [] key = "Failed" -> "collect"

\* the arm of `match group` that handles a group of the given key
Arm(key) ==
    CASE key = "Active" -> "collect"
      [] key = "Done" -> "done_loop"
      [] key = "Failed" -> "failed_loop"

\* group_key: buffer one more element to learn where the group ends
GroupKey ==
    /\ pc = "group_key"
    /\ \E st \in Answers :
        /\ Polled(st)
        /\ hist' = Observed(st)
        /\ IF inner.iter < Len(active_jobs)
           THEN LET elt == check_translation(PolledJob, st)
                IN  inner' = [inner EXCEPT
                        !.iter = @ + 1,
                        !.current_key = Some(elt.request_state),
                        !.current_elt = Some(elt),
                        !.top_group = IF group.key # elt.request_state
                                      THEN @ + 1 ELSE @]
           ELSE inner' = [inner EXCEPT !.done = TRUE, !.current_key = None]
    /\ pc' = Arm(group.key)
    /\ acc' = <<>>
    /\ UNCHANGED <<inputs, result, locals, active_jobs, next, group, job, bytes, limiter, alone>>

\* Active => next = jobs.collect()
Collect ==
    /\ pc = "collect"
    /\ \E st \in Answers :
        LET r == GroupNext(st)
        IN  /\ Polled(st)
            /\ hist' = Observed(st)
            /\ inner' = r.inner
            /\ group' = [group EXCEPT !.first = None]
            /\ IF r.ret # None
               THEN /\ acc' = Append(acc, r.ret[1])
                    /\ UNCHANGED <<next, pc>>
               ELSE /\ next' = acc
                    /\ acc' = <<>>
                    /\ pc' = "groups_next"
    /\ UNCHANGED <<inputs, result, locals, active_jobs, job, bytes, limiter, alone>>

\* Done => for j in jobs { ...
DoneNext ==
    /\ pc = "done_loop"
    /\ \E st \in Answers :
        LET r == GroupNext(st)
        IN  /\ Polled(st)
            /\ hist' = Observed(st)
            /\ inner' = r.inner
            /\ group' = [group EXCEPT !.first = None]
            /\ job' = r.ret
            /\ pc' = IF r.ret # None THEN "download" ELSE "groups_next"
    /\ UNCHANGED <<inputs, result, locals, active_jobs, next, acc, bytes, limiter, alone>>

Bump(n) == Min(n + 1, 2)

\* let bytes = client.download_translated_file(&j)?; the identifiers of the
\* polled job are the service's
Download ==
    /\ pc = "download"
    /\ \E ids \in IdLists, resp \in Responses :
        LET r == download_translated_file(WithIds(job[1], ids), resp)
            h == [hist EXCEPT !.networked = @ \/ r.sent > 0]
        IN  /\ hist' = Noted(h, r.ret)
            /\ IF Question(r.ret) = "return"
               THEN pc' = "returned" /\ result' = "Err" /\ UNCHANGED bytes
               ELSE pc' = "write" /\ bytes' = r.bytes /\ UNCHANGED result
    /\ UNCHANGED <<inputs, locals, active_jobs, next, inner, group, acc, job,
                   server, limiter, alone>>

\* File::create(output_path)?.write_all(&bytes)? / write_output_file(..)?
WriteFile ==
    /\ pc = "write"
    /\ \E written \in WriteResults :
        IF Question(written) = "return"
        THEN /\ pc' = "returned" /\ result' = "Err"
             /\ hist' = Noted(hist, written)
             /\ UNCHANGED bytes
        ELSE /\ hist' = Noted([hist EXCEPT
                            !.wrote[job[1].id] = IF written.ok THEN Bump(@) ELSE @],
                              written)
             /\ pc' = "done_loop"
             /\ bytes' = None
             /\ UNCHANGED result
    /\ UNCHANGED <<inputs, locals, active_jobs, next, inner, group, acc, job,
                   server, limiter, alone>>

\* Failed => for j in jobs { eprintln!("Translation failed: {}", ..) }
FailedNext ==
    /\ pc = "failed_loop"
    /\ \E st \in Answers :
        LET r == GroupNext(st)
            h == Observed(st)
        IN  /\ Polled(st)
            /\ inner' = r.inner
            /\ group' = [group EXCEPT !.first = None]
            /\ IF r.ret # None
               THEN /\ hist' = [h EXCEPT !.failLogged[r.ret[1].id] = Bump(@)]
                    /\ UNCHANGED pc
               ELSE /\ hist' = h
                    /\ pc' = "groups_next"
    /\ UNCHANGED <<inputs, result, locals, active_jobs, next, acc, job, bytes, limiter, alone>>

\* client.check_translation(j).unwrap(): a failed poll aborts the process
CheckTranslationFails ==
    /\ PollPending
    /\ pc' = "returned" /\ result' = "Panic"
    /\ hist' = Noted([hist EXCEPT !.networked = TRUE], Err("poll"))
    /\ UNCHANGED <<inputs, locals, loopv, server, limiter, alone>>

Next ==
    \/ EnvironmentClient
    \/ GetDocumentElements
    \/ ValidateStudio
    \/ ValidateDone
    \/ PrepareDir
    \/ DirsDone
    \/ BeginTranslation
    \/ DirectExport
    \/ SubmitDone
    \/ LoopHead
    \/ GroupsNext
    \/ GroupKey
    \/ Collect
    \/ DoneNext
    \/ Download
    \/ WriteFile
    \/ FailedNext
    \/ CheckTranslationFails

Spec == Init /\ [][Next]_vars

\* the export function is one thread that runs until it returns; the runs
\* over one configured part studio
InitOneStudio == Init /\ Len(config.part_studios) = 1

FairSpec == InitOneStudio /\ [][Next]_vars /\ WF_vars(Next)

\* ---------------------------------------------------------------- end to end
\* The run of 2 part studios of 2 parts each with STL and one translated format
\* against a service without faults that answers Active at submission and in
\* the first poll pass and Done afterwards.
ScenarioConfig(async) ==
    [part_studios |-> [s \in 1..2 |-> [id |-> s, synced_parts |-> SyncedParts(2)]],
     paths |-> [f \in {"ThreeMF", "Step", "Stl"} |->
                    IF f \in {"Stl", async} THEN Some(OutputDir(f)) ELSE None]]

InitScenario ==
    /\ variant \in {"export", "pull"}
    /\ environment = {ACCESS_KEY, SECRET_KEY}
    /\ \E async \in {"ThreeMF", "Step"} : config = ScenarioConfig(async)
    /\ options = [no_clean_paths |-> FALSE]
    /\ live = [elements |-> StudioIds, parts |-> [s \in StudioIds |-> Listing(PartIds)]]
    /\ pc = "client" /\ result = "running"
    /\ element_map = {}
    /\ to_export_by_studio = [s \in StudioIds |-> None]
    /\ si = 1 /\ fi = 1 /\ wi = 1
    /\ dirs = {}
    /\ active_jobs = <<>> /\ next = <<>>
    /\ inner = FreshInner /\ group = NoGroup /\ acc = <<>> /\ job = None
    /\ bytes = None
    /\ srv = <<>> /\ stuck = {} /\ patience = MostExports
    /\ hist = NoHistory
    /\ LimiterIdle
    /\ AloneIdle

\* the service of the scenario
Mock ==
    /\ ~hist'.faulted
    /\ stuck' = {}
    /\ bytes' # Some("error_page")
    /\ PollPending =>
            srv'[PolledJob.id] = (IF hist.passes <= 1 THEN "Active" ELSE "Done")

NextScenario ==
    \/ EnvironmentClient /\ Mock
    \/ GetDocumentElements /\ Mock
    \/ ValidateStudio /\ Mock
    \/ ValidateDone /\ Mock
    \/ PrepareDir /\ Mock
    \/ DirsDone /\ Mock
    \/ BeginTranslation /\ Mock
    \/ DirectExport /\ Mock
    \/ SubmitDone /\ Mock
    \/ LoopHead /\ Mock
    \/ GroupsNext /\ Mock
    \/ GroupKey /\ Mock
    \/ Collect /\ Mock
    \/ DoneNext /\ Mock
    \/ Download /\ Mock
    \/ WriteFile /\ Mock

SpecScenario == InitScenario /\ [][NextScenario]_vars

\* ---------------------------------------------------------------- rate limiter
\* The limiter of client.rs is governor's direct rate limiter: the generic cell
\* rate algorithm over one shared atomic word, the theoretical arrival time.
\* Time is counted in ticks and measured from the current instant: tat is the
\* theoretical arrival time minus now (never below 0), window[i] the number of
\* calls admitted i-1 ticks ago (where recorded), caller[c].wake the ticks a sleeper has left.
\* bucket is the reference token bucket the gate is compared with: Tau ticks
\* of credit when full, one tick of credit per tick, T ticks per admitted call.

AdmitsOneMore(prev) == prev - Tau <= 0

\* the decision of check() on a loaded state
Admits(prev) == prev + T - Tau <= 0

wait_time_from(prev) == prev + T - Tau

NextTat(prev) == Max(prev, 0) + T

RejectDrops(c, prev) == [caller EXCEPT ![c].pc = "idle"]

\* Err(negative) => std::thread::sleep(wait_duration)
Reject(c, prev) ==
    [caller EXCEPT ![c] = [pc |-> "sleep", prev |-> 0,
                           wake |-> wait_time_from(prev), slept |-> TRUE]]

ExchangesBlindly(prev) == TRUE

\* compare_exchange on the shared word: it succeeds only on an unchanged word
Exchanges(prev) == tat = prev

\* request(): loop { match self.rate_limiter.check() ...
Request(c) ==
    /\ caller[c].pc = "idle"
    /\ caller' = [caller EXCEPT ![c].pc = "check", ![c].slept = FALSE]
    /\ UNCHANGED <<tat, bucket, window>>

\* check(): load the shared word and decide
Check(c) ==
    /\ caller[c].pc = "check"
    /\ caller' = IF Admits(tat)
                 THEN [caller EXCEPT ![c].pc = "cas", ![c].prev = tat]
                 ELSE Reject(c, tat)
    /\ UNCHANGED <<tat, bucket, window>>

\* check(): publish the decision, or decide again on the word found instead
Cas(c) ==
    /\ caller[c].pc = "cas"
    /\ IF Exchanges(caller[c].prev)
       THEN /\ tat' = NextTat(caller[c].prev)
            /\ bucket' = bucket - T
            /\ window' = [i \in DOMAIN window |->
                            IF i = 1 THEN window[i] + 1 ELSE window[i]]
            /\ caller' = [caller EXCEPT ![c].pc = "passed", ![c].prev = 0]
       ELSE /\ caller' = IF Admits(tat)
                         THEN [caller EXCEPT ![c].prev = tat]
                         ELSE Reject(c, tat)
            /\ UNCHANGED <<tat, bucket, window>>

\* the sleep is over: back to the top of the loop
Wake(c) ==
    /\ caller[c].pc = "sleep"
    /\ caller[c].wake = 0
    /\ caller' = [caller EXCEPT ![c].pc = "check"]
    /\ UNCHANGED <<tat, bucket, window>>

\* Ok(_) => break: the request is signed and the builder returned
Passed(c) ==
    /\ caller[c].pc = "passed"
    /\ caller' = [caller EXCEPT ![c].pc = "idle"]
    /\ UNCHANGED <<tat, bucket, window>>

\* one tick of the clock; a check() in progress takes no time
Tick ==
    /\ \A c \in DOMAIN caller : caller[c].pc # "cas"
    /\ tat' = Max(tat - 1, 0)
    /\ bucket' = Min(bucket + 1, Tau)
    /\ window' = [i \in DOMAIN window |-> IF i = 1 THEN 0 ELSE window[i - 1]]
    /\ caller' = [c \in DOMAIN caller |->
                    [caller[c] EXCEPT !.wake = Max(@ - 1, 0)]]

ExportFrozen == UNCHANGED <<inputs, pc, result, locals, loopv, server, hist, alone>>

CallerStep(c) == Request(c) \/ Check(c) \/ Cas(c) \/ Wake(c) \/ Passed(c)

NextLimiter ==
    \/ \E c \in DOMAIN caller : Request(c) /\ ExportFrozen
    \/ \E c \in DOMAIN caller : Check(c) /\ ExportFrozen
    \/ \E c \in DOMAIN caller : Cas(c) /\ ExportFrozen
    \/ \E c \in DOMAIN caller : Wake(c) /\ ExportFrozen
    \/ \E c \in DOMAIN caller : Passed(c) /\ ExportFrozen
    \/ Tick /\ ExportFrozen

NoExport ==
    /\ variant = "export"
    /\ environment = {ACCESS_KEY, SECRET_KEY}
    /\ config = [part_studios |-> <<>>,
                 paths |-> [f \in {"ThreeMF", "Step", "Stl"} |-> None]]
    /\ options = [no_clean_paths |-> FALSE]
    /\ live = [elements |-> {}, parts |-> [s \in StudioIds |-> <<>>]]
    /\ ExportIdle

IdleCaller == [pc |-> "idle", prev |-> 0, wake |-> 0, slept |-> FALSE]

\* n callers; the admissions of the last w ticks are recorded
InitLimiter(n, w) ==
    /\ NoExport
    /\ tat = 0
    /\ bucket = Tau
    /\ window = [i \in 1..w |-> 0]
    /\ caller = [c \in 1..n |-> IdleCaller]
    /\ AloneIdle

\* the program as written: one thread, one request at a time
SpecLimiter == InitLimiter(1, OneSecond) /\ [][NextLimiter]_vars

FairLimiter ==
    /\ SpecLimiter
    /\ WF_vars(Tick /\ ExportFrozen)
    /\ WF_vars((Check(1) \/ Cas(1) \/ Wake(1)) /\ ExportFrozen)

\* several threads sharing the client
SpecCallers == InitLimiter(NCallers, 0) /\ [][NextLimiter]_vars

\* ---------------------------------------------------------------- client alone
\* download_translated_file and get_part_stl called on any job and against any
\* answer of the transport; call holds the last call and what it came to
Frozen == UNCHANGED <<inputs, pc, result, locals, loopv, server, hist, limiter>>

Jobs ==
    {WithIds([id |-> 1, request_state |-> st,
              output_filename |-> <<"bracket", "step">>, format |-> "Step"], ids) :
        st \in TranslationState, ids \in IdLists}

DownloadTranslatedFile ==
    /\ call = NoCall
    /\ \E j \in Jobs, resp \in Responses :
        call' = [op |-> "download_translated_file", job |-> j, resp |-> resp,
                 out |-> download_translated_file(j, resp)]
    /\ UNCHANGED <<signed, files, now>>

GetPartStl ==
    /\ call = NoCall
    /\ \E res, redirect \in Responses :
        call' = [op |-> "get_part_stl", res |-> res, redirect |-> redirect,
                 out |-> get_part_stl(res, redirect)]
    /\ UNCHANGED <<signed, files, now>>

\* the text of the redirect target is any text when the fetch succeeds
GetPartParasolid ==
    /\ call = NoCall
    /\ \E res, redirect \in Responses, para_text \in Texts :
        /\ get_part_stl(res, redirect).ret.ok \/ para_text = <<>>
        /\ call' = [op |-> "get_part_parasolid", res |-> res,
                    redirect |-> redirect, para_text |-> para_text,
                    out |-> get_part_parasolid(res, redirect, para_text)]
    /\ UNCHANGED <<signed, files, now>>

CallReturns ==
    /\ call # NoCall
    /\ call' = NoCall
    /\ UNCHANGED <<signed, files, now>>

NextClient ==
    \/ DownloadTranslatedFile /\ Frozen
    \/ GetPartStl /\ Frozen
    \/ GetPartParasolid /\ Frozen
    \/ CallReturns /\ Frozen

InitAlone == NoExport /\ LimiterIdle /\ AloneIdle

SpecClient == InitAlone /\ [][NextClient]_vars

\* ---------------------------------------------------------------- signer
\* The signature plaintext of request(). A string is the sequence of its
\* characters; signed holds the inputs signed so far with their plaintexts.
UpperCase == <<"A", "B", "E", "G", "O", "P", "S", "T", "W">>
LowerCase == <<"a", "b", "e", "g", "o", "p", "s", "t", "w">>

LowerChar(ch) ==
    IF \E i \in DOMAIN UpperCase : UpperCase[i] = ch
    THEN LowerCase[CHOOSE i \in DOMAIN UpperCase : UpperCase[i] = ch]
    ELSE ch

to_lowercase(str) == [i \in DOMAIN str |-> LowerChar(str[i])]

NL == <<"\n">>

Unseparated(method, nonce, date, content_type, path, query) ==
    to_lowercase(method \o nonce \o date \o content_type \o path \o query)

\* format!("{method}\n{nonce}\n{date}\n{content_type}\n{path}\n{query}\n")
\*     .to_lowercase()
signature_plaintext(method, nonce, date, content_type, path, query) ==
    to_lowercase(method \o NL \o nonce \o NL \o date \o NL \o content_type
                 \o NL \o path \o NL \o query \o NL)

Methods == {<<"G", "E", "T">>, <<"P", "O", "S", "T">>}

\* create_nonce: characters drawn from Alphanumeric
NonceChars == {"a", "A", "7"}
Nonces == [1..NonceLen -> NonceChars]

\* httpdate::fmt_http_date(SystemTime::now()), two instants
Dates == {<<"T", "u", "e">>, <<"W", "e", "d">>}

APPLICATION_JSON == <<"application/json">>

\* url.path(), percent-encoded
Paths == {<<"/", "a">>, <<"/", "a", "b">>, <<"/", "A">>}

\* url.query(), percent-decoded: a decoded query may hold any character
Queries == {<<>>, <<"b">>, <<"b", "\n", "c">>}

SignerInputs ==
    [method : Methods, nonce : Nonces, date : Dates, path : Paths, query : Queries]

Sign ==
    /\ Len(signed) < 2
    /\ \E t \in SignerInputs :
        signed' = Append(signed,
            [input |-> t,
             plaintext |-> signature_plaintext(t.method, t.nonce, t.date,
                                               APPLICATION_JSON, t.path, t.query)])
    /\ UNCHANGED <<call, files, now>>

NextSigner == Sign /\ Frozen

SpecSigner == InitAlone /\ [][NextSigner]_vars

\* ---------------------------------------------------------------- files
\* write_output_file of pull.rs on one output path. files is the file at the
\* path (None while there is none) with its content and modification time, now
\* the clock in ticks since the Unix epoch.

\* SystemTime::UNIX_EPOCH
UNIX_EPOCH == 0

Payloads == UNION {[1..n -> {"x", "y"}] : n \in 0..MaxBytes}

\* what the file system may do to one call: whether File::create succeeds,
\* how many bytes f.write takes (-1: it fails), whether set_modified succeeds
IoOutcomes(bs) ==
    [create : BOOLEAN, write : -1..Len(bs), set_modified : BOOLEAN]

\* File::create(output_path)?; f.write(bytes)?; if strip_timestamps
\* { f.set_modified(UNIX_EPOCH)? }; f.flush()?
write_output_file(f, t, bs, strip_timestamps, io) ==
    IF ~io.create
    THEN [files |-> f, ret |-> Err("io")]
    ELSE IF io.write < 0
    THEN [files |-> Some([content |-> <<>>, mtime |-> t]), ret |-> Err("io")]
    ELSE LET content == SubSeq(bs, 1, io.write)
         IN  IF ~strip_timestamps
             THEN [files |-> Some([content |-> content, mtime |-> t]), ret |-> Ok]
             ELSE IF ~io.set_modified
             THEN [files |-> Some([content |-> content, mtime |-> t]),
                   ret |-> Err("io")]
             ELSE [files |-> Some([content |-> content, mtime |-> UNIX_EPOCH]),
                   ret |-> Ok]

WriteOutputFile ==
    /\ \E bs \in Payloads, strip_timestamps \in BOOLEAN :
        \E io \in IoOutcomes(bs) :
            LET r == write_output_file(files, now, bs, strip_timestamps, io)
            IN  /\ files' = r.files
                /\ call' = [op |-> "write_output_file", bytes |-> bs,
                            strip_timestamps |-> strip_timestamps, at |-> now,
                            out |-> r.ret]
    /\ UNCHANGED <<signed, now>>

\* time passes between two writes
Elapse ==
    /\ now < MaxClock
    /\ now' = now + 1
    /\ UNCHANGED <<call, signed, files>>

NextFiles ==
    \/ WriteOutputFile /\ Frozen
    \/ Elapse /\ Frozen

SpecFiles == InitAlone /\ [][NextFiles]_vars

\* ---------------------------------------------------------------- clean
\* The preparation of one output directory (export.rs 87-95, pull.rs 90-98)
\* on a directory that exists already. A file name is the sequence of its
\* pieces, an extension string being one piece: <<"a", ".", "stl">> is a.stl,
\* <<"a", "stl">> is astl.
EntryNames ==
    {<<"a", ".", "stl">>, <<"a", "stl">>, <<"a", ".", "step">>, <<"a", ".", "3mf">>,
     <<"a", ".", "stl", ".", "bak">>}

DirEntries == [name : EntryNames, kind : {"file", "dir"}]

\* read_dir: the entries in the order the system yields them
ReadDirs ==
    UNION {{d \in [1..n -> DirEntries] :
                \A i, k \in 1..n : i # k => d[i].name # d[k].name} : n \in 0..MaxEntries}

\* name.ends_with(ext)
ends_with(name, ext) == name # <<>> /\ name[Len(name)] = ext

\* clean_path: remove_file on every entry whose name ends with ext; the
\* expect on remove_file panics for an entry that is no file
RECURSIVE clean_path(_, _)
clean_path(entries, ext) ==
    IF entries = <<>> THEN [left |-> <<>>, panic |-> FALSE]
    ELSE IF ~ends_with(Head(entries).name, ext)
    THEN LET r == clean_path(Tail(entries), ext)
         IN  [left |-> <<Head(entries)>> \o r.left, panic |-> r.panic]
    ELSE IF Head(entries).kind # "file"
    THEN [left |-> entries, panic |-> TRUE]
    ELSE clean_path(Tail(entries), ext)

\* create_dir_all(path)?; if options.should_clean_paths() { clean_path(..) }
PrepareOutputDir ==
    /\ call = NoCall
    /\ \E entries \in ReadDirs, i \in DOMAIN FORMATS, no_clean_paths \in BOOLEAN,
          created \in {Ok, Err("directory")} :
        LET opts == [no_clean_paths |-> no_clean_paths]
            ext == extension(FORMATS[i])
        IN  call' = [op |-> "prepare_output_dir", entries |-> entries, ext |-> ext,
                     options |-> opts,
                     out |-> IF Question(created) = "return"
                             THEN [ret |-> created, left |-> entries, panic |-> FALSE]
                             ELSE IF should_clean_paths(opts)
                             THEN [ret |-> Ok] @@ clean_path(entries, ext)
                             ELSE [ret |-> Ok, left |-> entries, panic |-> FALSE]]
    /\ UNCHANGED <<signed, files, now>>

NextClean ==
    \/ PrepareOutputDir /\ Frozen
    \/ CallReturns /\ Frozen

SpecClean == InitAlone /\ [][NextClean]_vars

\* ---------------------------------------------------------------- wire
\* The operations of client.rs with the requests they issue, one step at a
\* time: request() takes the caller through the limiter's loop and signs, the
\* operation then sends. call.log is what the operation in progress did so
\* far: "reject" and "acquire" for the answers of check(), "sign", "send".
ClientOps ==
    {"get_document_elements", "get_studio_parts", "get_part_stl",
     "get_part_parasolid", "begin_translation", "check_translation",
     "download_translated_file"}

SendsUnbuilt(op, k) == "send"

\* where the k-th request of an operation starts: each one is
\* self.request(method, url).send(), the builder comes from request()
Issue(op, k) == "request"

\* whether the operation goes on to another request after the answer to its
\* k-th: the fetches follow the redirect, the others are one request each
Follows(op, k, resp) ==
    /\ op \in {"get_part_stl", "get_part_parasolid"}
    /\ k = 1
    /\ get_part_stl(resp, resp).sent = 2

Logged(e) == [call EXCEPT !.log = Append(@, e)]

WireFrozen ==
    UNCHANGED <<inputs, pc, result, locals, loopv, server, hist, signed, files, now>>

\* an operation is called; download_translated_file returns at once on a job
\* that cannot be downloaded
WireBegin ==
    /\ call = NoCall
    /\ \E op \in ClientOps, j \in Jobs :
        call' = [op |-> op, k |-> 0, log |-> <<>>,
                 at |-> IF op = "download_translated_file"
                            /\ download_translated_file(j, TransportFailure).sent = 0
                        THEN "done" ELSE Issue(op, 1)]
    /\ UNCHANGED limiter

WireRequest ==
    /\ call # NoCall
    /\ call.at = "request"
    /\ Request(1)
    /\ call' = [call EXCEPT !.at = "loop"]

WireCheck ==
    /\ call # NoCall
    /\ Check(1)
    /\ call' = IF caller'[1].pc = "sleep" THEN Logged("reject") ELSE call

WireCas ==
    /\ call # NoCall
    /\ Cas(1)
    /\ call' = IF caller'[1].pc = "passed" THEN Logged("acquire")
               ELSE IF caller'[1].pc = "sleep" THEN Logged("reject")
               ELSE call

WireWake ==
    /\ call # NoCall
    /\ Wake(1)
    /\ UNCHANGED call

\* the rest of request(): the signature and the headers
WireSign ==
    /\ call # NoCall
    /\ Passed(1)
    /\ call' = [Logged("sign") EXCEPT !.at = "send"]

\* send(): any answer of the transport
WireSend ==
    /\ call # NoCall
    /\ call.at = "send"
    /\ \E resp \in Responses :
        call' = [call EXCEPT !.k = @ + 1, !.log = Append(@, "send"),
                             !.at = IF Follows(call.op, call.k + 1, resp)
                                    THEN Issue(call.op, call.k + 2) ELSE "done"]
    /\ UNCHANGED limiter

WireReturn ==
    /\ call # NoCall
    /\ call.at = "done"
    /\ call' = NoCall
    /\ UNCHANGED limiter

WireTick == Tick /\ UNCHANGED call

NextWire ==
    \/ WireBegin /\ WireFrozen
    \/ WireRequest /\ WireFrozen
    \/ WireCheck /\ WireFrozen
    \/ WireCas /\ WireFrozen
    \/ WireWake /\ WireFrozen
    \/ WireSign /\ WireFrozen
    \/ WireSend /\ WireFrozen
    \/ WireReturn /\ WireFrozen
    \/ WireTick /\ WireFrozen

InitWire == InitLimiter(1, 0)

SpecWire == InitWire /\ [][NextWire]_vars

\* ---------------------------------------------------------------- claims
JobIds(jobs) == {jobs[i].id : i \in 1..Len(jobs)}

PolledAs(st) == {hist.polled[i][1] : i \in {k \in 1..Len(hist.polled) : hist.polled[k][2] = st}}

Submitted == 1..Len(srv)

\* C1: at the end of every poll pass, every job polled as Active in that pass
\* is in the in-flight set of the next pass.
C1_ActiveRetained ==
    pc = "while" => PolledAs("Active") \subseteq JobIds(active_jobs)

\* C2: when export returns Ok every submitted job has been seen in a terminal
\* state, one file was written per Done job and one failure line logged per
\* Failed job.
C2_Accounting ==
    result = "Ok" =>
        /\ \A id \in Submitted : srv[id] # "Active"
        /\ \A id \in Submitted : hist.wrote[id] = (IF srv[id] = "Done" THEN 1 ELSE 0)
        /\ \A id \in Submitted : hist.failLogged[id] = (IF srv[id] = "Failed" THEN 1 ELSE 0)

\* C3: no job is polled again after a poll returned Done or Failed for it, and
\* every job is written at most once or logged as failed at most once, never
\* both.
C3_ConsumedOnce ==
    /\ ~hist.repolled
    /\ \A id \in Submitted : hist.wrote[id] + hist.failLogged[id] <= 1

C3_Witness ==
    /\ result = "Ok"
    /\ patience < MaxDelay
    /\ \E i, k \in Submitted : hist.wrote[i] = 1 /\ hist.failLogged[k] = 1

Unresolved ==
    \E s \in 1..Len(config.part_studios) :
        LET studio == config.part_studios[s]
        IN  \/ studio.id \notin live.elements
            \/ \E i \in 1..Len(studio.synced_parts) :
                    studio.synced_parts[i].id \notin PartIdsOf(live.parts[studio.id])

\* C4: when a configured part studio or part is absent from the live listing,
\* export makes no begin_translation call, prepares no output directory,
\* writes nothing and can only return an error.
C4_FailFast ==
    Unresolved =>
        /\ hist.begun = 0 /\ hist.direct = 0 /\ dirs = {}
        /\ result \in {"running", "Err"}

\* C5: in a pass in which some job was polled as Failed, every job polled as
\* Done has been written and every job polled as Active is carried into the
\* next pass.
C5_FailedIsolated ==
    (pc = "while" /\ PolledAs("Failed") # {}) =>
        /\ \A id \in PolledAs("Done") : hist.wrote[id] = 1
        /\ PolledAs("Active") \subseteq JobIds(active_jobs)

WindowSum == SumSeq(window)

\* C6: the calls admitted within one second (the last OneSecond ticks) number
\* at most 4.
C6_AtMostBurstPerSecond == WindowSum <= Burst

\* C6 (amended): the calls admitted within one second number at most 7, the
\* burst of 4 and the 3 cells replenished meanwhile; at most 4 pass at once.
C6_AtMostBurstAndRefill ==
    /\ WindowSum <= 2 * Burst - 1
    /\ \A i \in DOMAIN window : window[i] <= Burst

C6_Witness == WindowSum = 2 * Burst - 1

C8_EventuallyPasses ==
    (caller[1].pc \in {"check", "cas", "sleep"}) ~> (caller[1].pc = "passed")

C8_Witness == caller[1].pc = "passed" /\ caller[1].slept

\* C9: export does not return Ok when a submitted job never leaves Active on
\* the service.
C9_StuckNeverOk == result = "Ok" => stuck = {}

\* C10: once export is in the poll loop, unless an error occurs or a job never
\* leaves Active on the service, export eventually returns Ok.
C10_Terminates ==
    (pc = "while") ~> (result = "Ok" \/ hist.faulted \/ stuck # {})

C10_Witness ==
    /\ result = "Ok"
    /\ ~hist.faulted
    /\ Len(srv) >= 2
    /\ patience = 0

\* C11: download_translated_file returns bytes only for a job that is Done and
\* has a result identifier; for any other job it returns an error and no
\* request goes out.
C11_DownloadOnlyWhenDone ==
    call.op = "download_translated_file" =>
        LET ids == call.job.result_external_data_ids
            ready == /\ call.job.request_state = "Done"
                     /\ ids # None
                     /\ ids[1] # <<>>
        IN  /\ call.out.ret.ok => ready
            /\ ~ready => (~call.out.ret.ok /\ call.out.sent = 0)

C11_Witness ==
    /\ call.op = "download_translated_file"
    /\ call.job.request_state = "Done"
    /\ call.job.result_external_data_ids = Some(<<>>)
    /\ call.out.ret = Err("state")
    /\ call.out.sent = 0

\* C12: an I/O error while creating or writing an output file, in the Done
\* handling of the poll loop or in the direct export, ends export with that
\* error: the run does not go on and does not return Ok.
C12_IoErrorPropagates ==
    hist.cause = "io" => (pc = "returned" /\ result = "Err")

C12_Witness ==
    /\ hist.cause = "io"
    /\ result = "Err"
    /\ \E id \in Submitted : hist.wrote[id] = 1

\* C13: a status poll that fails at the transport makes export return an
\* error value; the process is not aborted.
C13_PollErrorReturned ==
    hist.cause = "poll" => result = "Err"

\* C15: the bytes that download_translated_file hands to the Done handling
\* never come from a response with a non-success status.
C15_UnexpectedStatusIsError ==
    bytes # Some("error_page")

\* C16: no job of a format whose export action is Direct is in the in-flight
\* set.
C16_DirectNotTranslated ==
    \A i \in DOMAIN active_jobs : export_action(active_jobs[i].format) = "Translate"

\* C18: when the access key or the secret key is missing from the environment
\* export sends no request, touches no directory or file and can only return
\* an error.
C18_NoKeysNoRequest ==
    ~({ACCESS_KEY, SECRET_KEY} \subseteq environment) =>
        /\ ~hist.networked
        /\ dirs = {}
        /\ hist.direct = 0
        /\ \A id \in DOMAIN hist.wrote : hist.wrote[id] = 0
        /\ result \in {"running", "Err"}
        /\ pc \in {"client", "returned"}

C18_Witness ==
    /\ environment = {ACCESS_KEY}
    /\ pc = "returned"
    /\ result = "Err"
    /\ hist.cause = "configuration"

\* C14: get_part_stl sends a second request only after a redirect that carries
\* a Location header, and a response that is no redirect or has no Location
\* header comes back to the caller as an error, not as an abort of the process.
C14_ProtocolErrorIsError ==
    call.op = "get_part_stl" =>
        /\ call.out.sent = 2 =>
                (is_redirection(call.res.status) /\ call.res.location # None)
        /\ ~call.out.panic

ScenarioWrites == hist.direct + SumSeq(hist.wrote)

\* C17: in the run of 2 part studios x 2 parts x 2 formats against the service
\* that answers Active in the first poll pass and Done afterwards, no third
\* pass begins, nothing fails, and when export returns Ok it has written 8
\* files, logged 8 'Exporting' lines and no failure line, in 2 passes.
C17_EndToEnd ==
    /\ hist.passes <= 2
    /\ result \in {"running", "Ok"}
    /\ SumSeq(hist.failLogged) = 0
    /\ result = "Ok" =>
            /\ ScenarioWrites = 8
            /\ hist.exporting = 8
            /\ hist.passes = 2

C17_Witness ==
    /\ variant = "pull"
    /\ result = "Ok"
    /\ hist.direct = 4
    /\ hist.begun = 4

\* C19: two signed input tuples (method, path, query, date, nonce) that differ
\* in a component have different signature plaintexts.
C19_NoCollision ==
    \A i, k \in DOMAIN signed :
        signed[i].input # signed[k].input => signed[i].plaintext # signed[k].plaintext

Folded(t) ==
    [method |-> to_lowercase(t.method), nonce |-> to_lowercase(t.nonce),
     date |-> to_lowercase(t.date), path |-> to_lowercase(t.path),
     query |-> to_lowercase(t.query)]

\* C19 (amended): two signed input tuples that differ in a component by more
\* than letter case have different signature plaintexts, and the plaintext is
\* a function of the tuple.
C19_NoCollisionUpToCase ==
    \A i, k \in DOMAIN signed :
        /\ Folded(signed[i].input) # Folded(signed[k].input)
                => signed[i].plaintext # signed[k].plaintext
        /\ signed[i].input = signed[k].input
                => signed[i].plaintext = signed[k].plaintext

C19_Witness ==
    /\ Len(signed) = 2
    /\ signed[1].input.path = <<"/", "a">> /\ signed[1].input.query = <<"b">>
    /\ signed[2].input.path = <<"/", "a", "b">> /\ signed[2].input.query = <<>>
    /\ signed[1].input.nonce = signed[2].input.nonce
    /\ signed[1].plaintext # signed[2].plaintext

\* C20: after write_output_file has returned Ok the file holds exactly the
\* given bytes, and its modification time is the Unix epoch when timestamps
\* are stripped and the time of the write when they are not; so two writes of
\* the same bytes with stripping leave the same file whenever they happen.
C20_Reproducible ==
    (call.op = "write_output_file" /\ call.out.ok) =>
        /\ files # None
        /\ files[1].content = call.bytes
        /\ files[1].mtime = (IF call.strip_timestamps THEN UNIX_EPOCH ELSE call.at)

FirstBreak(text) ==
    IF \E j \in DOMAIN text : text[j] = "\n"
    THEN CHOOSE j \in DOMAIN text :
            text[j] = "\n" /\ \A k \in 1..(j - 1) : text[k] # "\n"
    ELSE Len(text)

\* the text without its lines that begin with DATE=
RECURSIVE WithoutDateLines(_)
WithoutDateLines(text) ==
    IF text = <<>> THEN <<>>
    ELSE LET j == FirstBreak(text)
         IN  (IF Head(text) = "D" THEN <<>> ELSE SubSeq(text, 1, j))
                 \o WithoutDateLines(SubSeq(text, j + 1, Len(text)))

\* C21: the text returned by get_part_parasolid is the fetched text without
\* its DATE= lines, wherever they are and however many, and normalising that
\* text again changes nothing.
C21_StripsEveryDateLine ==
    (call.op = "get_part_parasolid" /\ call.out.ret.ok) =>
        /\ call.out.bytes[1] = WithoutDateLines(call.para_text)
        /\ replace(call.out.bytes[1]) = call.out.bytes[1]

\* the extension of a file name: what follows its last dot
HasExtension(name, ext) ==
    Len(name) >= 3 /\ name[Len(name)] = ext /\ name[Len(name) - 1] = "."

\* C22: preparing an output directory with cleaning leaves exactly the entries
\* that are not files of the format's extension, and without cleaning leaves
\* every entry; it does not abort.
C22_CleansExactlyTheExtension ==
    (call.op = "prepare_output_dir" /\ call.out.ret.ok) =>
        /\ ~call.out.panic
        /\ call.out.left =
                IF call.options.no_clean_paths THEN call.entries
                ELSE SelectSeq(call.entries,
                        LAMBDA e : ~(e.kind = "file" /\ HasExtension(e.name, call.ext)))

\* C23: every request a client operation sends, the request to the redirect
\* target included, comes right after the signing, which comes right after the
\* one successful acquisition of the limiter made for it: acquire, sign, send.
C23_AcquireSignSend ==
    call # NoCall =>
        /\ \A i \in DOMAIN call.log :
            call.log[i] = "send" =>
                i >= 3 /\ call.log[i - 1] = "sign" /\ call.log[i - 2] = "acquire"
        /\ \A i \in DOMAIN call.log :
            call.log[i] = "sign" => i >= 2 /\ call.log[i - 1] = "acquire"
        /\ \A i \in DOMAIN call.log :
            call.log[i] = "acquire" =>
                i = 1 \/ call.log[i - 1] \in {"send", "reject"}
        /\ call.k = Len(SelectSeq(call.log, LAMBDA e : e = "send"))

C23_Witness ==
    /\ call # NoCall
    /\ call.op = "get_part_stl"
    /\ call.at = "done"
    /\ call.k = 2
    /\ \E i \in DOMAIN call.log : i > 3 /\ call.log[i] = "reject"

\* C24: the jobs submitted for the asynchronous formats are one per
\* (part studio, resolved part, format), in configuration order; no poll
\* happens before the last submission, and a failed submission ends the run
\* with the error and without a poll.
AsyncFormats ==
    SelectSeq(export_formats(config), LAMBDA f : export_action(f) = "Translate")

AsyncTriples ==
    Flatten([s \in 1..Len(config.part_studios) |->
        LET parts == to_export_by_studio[config.part_studios[s].id][1]
        IN  Flatten([p \in 1..Len(parts) |->
                [k \in 1..Len(AsyncFormats) |->
                    [studio |-> config.part_studios[s].id,
                     part_id |-> parts[p][1],
                     output_filename |-> <<parts[p][2], extension(AsyncFormats[k])>>,
                     format |-> AsyncFormats[k]]]])])

AsyncJobs(jobs) == SelectSeq(jobs, LAMBDA j : export_action(j.format) = "Translate")

Submitting ==
    \/ pc = "submit"
    \/ pc = "while" /\ hist.passes = 0
    \/ hist.cause = "submission"

C24_OneJobPerTripleBeforePolling ==
    /\ Submitting =>
        LET jobs == AsyncJobs(active_jobs)
            triples == AsyncTriples
        IN  /\ Len(jobs) <= Len(triples)
            /\ \A k \in DOMAIN jobs :
                /\ jobs[k].output_filename = triples[k].output_filename
                /\ jobs[k].format = triples[k].format
            /\ \A k, l \in DOMAIN active_jobs :
                k # l => active_jobs[k].id # active_jobs[l].id
            /\ pc = "while" =>
                /\ Len(jobs) = Len(triples)
                /\ hist.begun >= Len(triples)
                /\ wi > Len(SubmissionOrder)
    /\ (hist.passes >= 1 \/ hist.polled # <<>>) =>
        /\ pc \notin {"client", "elements", "validate", "dirs", "submit"}
        /\ hist.cause # "submission"
    /\ hist.cause = "submission" =>
        /\ pc = "returned" /\ result = "Err"
        /\ hist.passes = 0 /\ hist.polled = <<>> /\ ~hist.repolled

C24_Witness ==
    /\ hist.cause = "submission"
    /\ Len(AsyncJobs(active_jobs)) >= 2
    /\ Len(config.part_studios) = 2

\* C25: within one pass, a Done job is downloaded and written only after every
\* job of the in-flight set has been polled in that pass.
C25_PollsBeforeHandling ==
    pc \in {"download", "write"} =>
        /\ inner.iter = Len(active_jobs)
        /\ Len(hist.polled) = Len(active_jobs)

\* C26: the exports that completed so far wrote to pairwise distinct paths:
\* as many output files as there are successful exports.
TranslateId(so, i) == Cardinality({k \in 1..i : so[k].action = "Translate"})

Exported(so) ==
    {i \in DOMAIN so :
        IF so[i].action = "Translate"
        THEN i < wi /\ TranslateId(so, i) <= Len(srv)
                    /\ hist.wrote[TranslateId(so, i)] >= 1
        ELSE i < wi}

OutputPath(so, i) ==
    <<format_path(config, so[i].format)[1], so[i].basename, extension(so[i].format)>>

C26_EachExportItsOwnFile ==
    hist.exporting > 0 =>
        LET so == SubmissionOrder
            done == Exported(so)
        IN  Cardinality({OutputPath(so, i) : i \in done}) = Cardinality(done)

\* C27: a job that was polled, however often, carries the file name and the
\* format it was given at submission: every copy of a job held in the loop has
\* the name and format of the job in the in-flight set, the jobs of the
\* in-flight set are not changed by being polled, and the Done job being
\* written has the file name and format of its submission.
Range(q) == {q[i] : i \in DOMAIN q}

\* the items for which a translation is begun: job id is the id-th of them
TranslateItems == SelectSeq(SubmissionOrder, LAMBDA x : x.action = "Translate")

Held ==
    Range(active_jobs) \cup Range(next) \cup Range(acc) \cup Range(job)
        \cup Range(group.first) \cup Range(inner.current_elt)

C27_PollKeepsNameAndFormat ==
    /\ \A j, k \in Held :
        j.id = k.id => j.output_filename = k.output_filename /\ j.format = k.format
    /\ \A j \in Range(active_jobs) : j.request_state = "Active"
    /\ pc \in {"download", "write"} =>
        LET item == TranslateItems[job[1].id]
        IN  /\ job[1].format = item.format
            /\ job[1].output_filename = <<item.basename, extension(item.format)>>

C27_Witness ==
    /\ pc = "write"
    /\ hist.passes >= 2
    /\ job[1].request_state = "Done"
    /\ job[1].id = 2

\* C28: once the submission phase is over the in-flight set only loses jobs:
\* the set of a pass is a subset, by handle, of the set of the pass before, no
\* longer than it, and the service is given no new job.
C28_Step ==
    pc \notin {"client", "elements", "validate", "dirs", "submit"} =>
        /\ JobIds(active_jobs') \subseteq JobIds(active_jobs)
        /\ Len(active_jobs') <= Len(active_jobs)
        /\ Len(srv') = Len(srv)

C28_InFlightNeverGrows == [][C28_Step]_vars

C28_Witness ==
    /\ pc = "while"
    /\ hist.passes >= 2
    /\ Len(active_jobs) = 1
    /\ Len(srv) = 3

\* C29: the output directories are created and cleaned after every part studio
\* has been resolved and before the first submission, direct export or file
\* write: once anything was submitted or written, all of them are done.
Resolved ==
    \A s \in DOMAIN config.part_studios :
        to_export_by_studio[config.part_studios[s].id] # None

NothingOut ==
    /\ hist.exporting = 0
    /\ hist.direct = 0
    /\ srv = <<>>
    /\ \A id \in DOMAIN hist.wrote : hist.wrote[id] = 0

C29_DirectoriesBetweenResolutionAndSubmission ==
    /\ dirs # {} => Resolved
    /\ pc \in {"client", "elements", "validate"} => dirs = {} /\ fi = 1
    /\ pc = "dirs" => Resolved /\ NothingOut
    /\ ~NothingOut =>
        /\ dirs = {f \in Range(FORMATS) : config.paths[f] # None}
        /\ fi > Len(export_formats(config))

C29_Witness ==
    /\ pc = "write"
    /\ should_clean_paths(options)
    /\ Cardinality(dirs) = 2
    /\ hist.passes >= 2

====
